---- MODULE Spec2Model ----
(***************************************************************************)
(* A model of sudoku.c: checkPuzzle (the completion loop, the completeness *)
(* check, the fork/join validation) and the validateRegion threads.        *)
(*                                                                         *)
(* The grid is a function from <<row, col>> (1-indexed, as in the source)  *)
(* to the integer stored there.  The main thread is a program counter pc   *)
(* walking through checkPuzzle; every validateRegion thread is a slot of   *)
(* th that goes "none" -> "running" -> "exited".                           *)
(***************************************************************************)
EXTENDS Integers, FiniteSets, Sequences, TLC

VARIABLES
  psize,        \* checkPuzzle's parameter psize
  n,            \* checkPuzzle's local n = (int)(sqrt(psize) + 0.5)
  grid,         \* grid[<<row, col>>], rows and columns 1..psize
  pc,           \* where the main thread is in checkPuzzle
  idx,          \* the loop variable of the loop pc is in (row, col, box number, i)
  progress,     \* checkPuzzle's local progress
  complete,     \* *complete: "unset" until assigned, then "true" / "false"
  valid,        \* *valid: "unset" until assigned, then "true" / "false"
  tdArray,      \* tdArray[0 .. totalThreads-1], empty before the malloc
  th,           \* th[i]: "none" | "running" | "exited" | "killed"
  overallValid, \* checkPuzzle's local overallValid
  run,          \* 1 in the completion loop of checkPuzzle, 2 in a second run of it
  passes,       \* history: iterations of the do-while body started in this run
  fills,        \* history: cells written in the current iteration
  grid0,        \* history: the grid checkPuzzle was given
  gridAtExit,   \* history: the grid when the completion loop first ended
  log           \* history: log[i], what thread i did, in order (empty until it
                \* ends), for the threads i a specification keeps a log of

vars == <<pc, idx, th, psize, n, grid, progress, complete, valid, tdArray,
          overallValid, run, passes, fills, grid0, gridAtExit, log>>

----------------------------------------------------------------------------
(* The input space: the grids checkPuzzle is given.                        *)

\* at most this many cells of a base grid are blanked (set to 0)
MaxBlank == 2

\* the puzzle sizes explored: perfect squares
Sizes == {1, 4}

Cells(p) == (1..p) \X (1..p)

FromRows(p, rows) == [c \in Cells(p) |-> rows[c[1]][c[2]]]

\* a solved 4x4 grid
Solved4 ==
  FromRows(4, << <<1, 2, 3, 4>>, <<3, 4, 1, 2>>, <<2, 1, 4, 3>>, <<4, 3, 2, 1>> >>)
\* Solved4 with (1,2) and (2,2) exchanged: rows 1 and 2 have a duplicate, every
\* column and box is a permutation
RowDup4 ==
  FromRows(4, << <<1, 4, 3, 4>>, <<3, 2, 1, 2>>, <<2, 1, 4, 3>>, <<4, 3, 2, 1>> >>)
\* Solved4 with (1,1) and (1,2) exchanged: columns 1 and 2 have a duplicate,
\* every row and box is a permutation
ColDup4 ==
  FromRows(4, << <<2, 1, 3, 4>>, <<3, 4, 1, 2>>, <<2, 1, 4, 3>>, <<4, 3, 2, 1>> >>)
\* a cyclic latin square: every row and column is a permutation, no box is
BoxDup4 ==
  FromRows(4, << <<1, 2, 3, 4>>, <<2, 3, 4, 1>>, <<3, 4, 1, 2>>, <<4, 1, 2, 3>> >>)
\* Solved4 with 5 (out of 0..4) at (4,4)
Range4 ==
  FromRows(4, << <<1, 2, 3, 4>>, <<3, 4, 1, 2>>, <<2, 1, 4, 3>>, <<4, 3, 2, 5>> >>)
\* Solved4 with the bottom-right box empty
Sparse4 ==
  FromRows(4, << <<1, 2, 3, 4>>, <<3, 4, 1, 2>>, <<2, 1, 0, 0>>, <<4, 3, 0, 0>> >>)

\* RowDup4 with the bottom-right box empty
SparseDup4 ==
  FromRows(4, << <<1, 4, 3, 4>>, <<3, 2, 1, 2>>, <<2, 1, 0, 0>>, <<4, 3, 0, 0>> >>)

\* the valid solved grids of size p among the bases
SolvedGrids(p) == IF p = 4 THEN {Solved4} ELSE {FromRows(1, << <<1>> >>)}

\* the grids the inputs are cut from
Bases(p) ==
  IF p = 4 THEN {Solved4, RowDup4, ColDup4, BoxDup4, Range4, Sparse4, SparseDup4}
           ELSE {FromRows(1, << <<1>> >>), FromRows(1, << <<2>> >>)}

\* the cells that may be blanked
BlankWindow(p) == IF p = 4 THEN {<<1, 1>>, <<1, 3>>, <<3, 1>>} ELSE Cells(p)

\* the grids given to checkPuzzle: a base grid with at most MaxBlank cells of
\* the window set to 0
Blanked(bases, window, k) ==
  { [c \in DOMAIN b |-> IF c \in B THEN 0 ELSE b[c]] :
      <<b, B>> \in bases \X {X \in SUBSET window : Cardinality(X) <= k} }

Inputs(p) == Blanked(Bases(p), BlankWindow(p), MaxBlank)

(* The input space of the completion loop run on its own (SpecEngine): more *)
(* blanked cells, and size 9.                                               *)

\* at most this many cells of a base grid are blanked
MaxEngineBlank == 4

EngineSizes == {1, 4, 9}

\* a solved 9x9 grid: row r, column c (from 0) holds (3 (r mod 3) + r div 3 + c) mod 9 + 1
Solved9 ==
  [c \in Cells(9) |->
     ((3 * ((c[1] - 1) % 3) + ((c[1] - 1) \div 3) + (c[2] - 1)) % 9) + 1]

EngineSolved(p) == IF p = 9 THEN {Solved9} ELSE SolvedGrids(p)
EngineBases(p) == IF p = 9 THEN {Solved9} ELSE Bases(p)

EngineWindow(p) ==
  IF p = 4 THEN {<<1, 1>>, <<1, 2>>, <<1, 3>>, <<2, 1>>, <<2, 2>>, <<2, 3>>,
                 <<2, 4>>, <<3, 1>>, <<3, 3>>, <<4, 2>>}
  ELSE IF p = 9 THEN {<<1, 1>>, <<1, 4>>, <<2, 1>>, <<2, 5>>, <<4, 4>>, <<5, 9>>}
  ELSE Cells(p)

EngineInputs(p) == Blanked(EngineBases(p), EngineWindow(p), MaxEngineBlank)


----------------------------------------------------------------------------
(* Pure helpers of checkPuzzle.                                            *)

\* n = (int)(sqrt(psize) + 0.5): the integer k with k - 1/2 <= sqrt(p) < k + 1/2
RoundSqrt(p) ==
  CHOOSE k \in 0..p : (2 * k - 1) * (2 * k - 1) <= 4 * p /\ 4 * p < (2 * k + 1) * (2 * k + 1)

\* the cells of a region in the order the loops visit them
RowCells(row) == [col \in 1..psize |-> <<row, col>>]
ColCells(col) == [row \in 1..psize |-> <<row, col>>]
BoxCells(startRow, startCol) ==
  [k \in 1..(n * n) |-> <<startRow + ((k - 1) \div n), startCol + ((k - 1) % n)>>]

\* box number k = i * n + j of the nested loops "for i < n, for j < n"
BoxOf(k) == BoxCells((k \div n) * n + 1, (k % n) * n + 1)

Zeros(g) == Cardinality({c \in DOMAIN g : g[c] = 0})

----------------------------------------------------------------------------
(* One region scan of the completion loop (the three loops over rows,       *)
(* columns and boxes have the same body, applied to the region's cells).    *)

\* missingCount, the last missing cell seen, and the values marked present
MissingAt(g, cells) == {k \in DOMAIN cells : g[cells[k]] = 0}
MissingCount(g, cells) == Cardinality(MissingAt(g, cells))
\* (mutant) the cell written is the region's first
MissingCellFirst(g, cells) == cells[1]
MissingCell(g, cells) ==
  LET m == MissingAt(g, cells)
  IN  cells[CHOOSE k \in m : \A j \in m : j <= k]
Present(g, cells) == {g[cells[k]] : k \in DOMAIN cells \ MissingAt(g, cells)}

\* "present[num] = true" writes outside bool present[psize + 1] when a nonzero
\* cell is not in 0..psize: undefined behaviour
OutOfBounds(g, cells) ==
  \E k \in DOMAIN cells : g[cells[k]] < 0 \/ g[cells[k]] > psize

\* (mutant) the search for the value starts at num = 0
FillValueFromZero(g, cells) == 0

\* (mutant) the loop over num has no break: the last num with !present[num]
FillValueLast(g, cells) ==
  CHOOSE num \in 1..psize :
    /\ num \notin Present(g, cells)
    /\ \A m \in (num + 1)..psize : m \in Present(g, cells)

\* the first num of 1..psize with !present[num], the value the fill writes
FillValue(g, cells) ==
  CHOOSE num \in 1..psize :
    /\ num \notin Present(g, cells)
    /\ \A m \in 1..(num - 1) : m \in Present(g, cells)

\* (mutant) the test is present[num] instead of !present[num]
FillRegionPresent(g, cells) ==
  IF /\ MissingCount(g, cells) = 1
     /\ \E num \in 1..psize : num \in Present(g, cells)
    THEN [grid |-> [g EXCEPT ![MissingCell(g, cells)] =
                      CHOOSE num \in 1..psize :
                        /\ num \in Present(g, cells)
                        /\ \A m \in 1..(num - 1) : m \notin Present(g, cells)],
          progress |-> TRUE]
    ELSE [grid |-> g, progress |-> FALSE]

\* (mutant) the fill does not set progress
FillRegionNoProgress(g, cells) ==
  IF /\ MissingCount(g, cells) = 1
     /\ \E num \in 1..psize : num \notin Present(g, cells)
    THEN [grid |-> [g EXCEPT ![MissingCell(g, cells)] = FillValue(g, cells)],
          progress |-> FALSE]
    ELSE [grid |-> g, progress |-> FALSE]

\* (mutant) the test is missingCount >= 1
FillRegionAtLeastOne(g, cells) ==
  IF /\ MissingCount(g, cells) >= 1
     /\ \E num \in 1..psize : num \notin Present(g, cells)
    THEN [grid |-> [g EXCEPT ![MissingCell(g, cells)] = FillValue(g, cells)],
          progress |-> TRUE]
    ELSE [grid |-> g, progress |-> FALSE]

\* "if (missingCount == 1) for (num ...) if (!present[num]) { write; progress = true; break; }"
FillRegion(g, cells) ==
  IF /\ MissingCount(g, cells) = 1
     /\ \E num \in 1..psize : num \notin Present(g, cells)
    THEN [grid |-> [g EXCEPT ![MissingCell(g, cells)] = FillValue(g, cells)],
          progress |-> TRUE]
    ELSE [grid |-> g, progress |-> FALSE]

\* (mutant) the body runs once: no loop
LoopAgainNever(p) == FALSE

\* the loop test of "do { ... } while (progress)"
LoopAgain(p) == p

\* the body of one iteration of a region loop: scan cells, then either go on
\* with the next region or (last) leave the loop for nextpc
ScanStep(cells, last, nextpc, nextidx) ==
  /\ \/ LET r == FillRegion(grid, cells)
        IN  /\ grid' = r.grid
            /\ progress' = (progress \/ r.progress)
            /\ fills' = fills + (IF r.grid # grid THEN 1 ELSE 0)
            /\ IF last THEN pc' = nextpc /\ idx' = nextidx
                       ELSE pc' = pc /\ idx' = idx + 1
     \/ /\ OutOfBounds(grid, cells)
        /\ pc' = "ub"
        /\ UNCHANGED <<grid, progress, fills, idx>>
  /\ UNCHANGED <<psize, n, complete, valid, tdArray, th, overallValid, run,
                 passes, grid0, gridAtExit, log>>

----------------------------------------------------------------------------
(* The main thread: the completion loop.                                   *)

TotalThreads == 3 * psize

\* the state when checkPuzzle(p, g, &complete, &valid) is entered
Entry(p, g) ==
  /\ psize = p
  /\ n = RoundSqrt(p)
  /\ grid = g
  /\ grid0 = g
  /\ gridAtExit = g
  /\ pc = "do"
  /\ idx = 0
  /\ progress = FALSE
  /\ complete = "unset"
  /\ valid = "unset"
  /\ tdArray = [i \in {} |-> 0]
  /\ th = [i \in 0..(3 * p - 1) |-> "none"]
  /\ overallValid = TRUE
  /\ run = 1
  /\ passes = 0
  /\ fills = 0

Init == \E p \in Sizes : \E g \in Inputs(p) : Entry(p, g) /\ log = <<>>

\* RowDup4 with 5 (out of 0..4) at (4,4)
RangeDup4 ==
  FromRows(4, << <<1, 4, 3, 4>>, <<3, 2, 1, 2>>, <<2, 1, 4, 3>>, <<4, 3, 2, 5>> >>)

\* checkPuzzle entered with a grid all of whose regions are valid, a grid
\* with regions of the three kinds (valid, with a duplicate, with a number
\* out of 1..psize) or a grid it finds incomplete; a log kept of every thread
InitThreads ==
  \E p \in Sizes : \E g \in IF p = 4 THEN {Solved4, RangeDup4, Sparse4} ELSE Bases(p) :
    Entry(p, g) /\ log = [i \in 0..(3 * p - 1) |-> <<>>]

InitEngine == \E p \in EngineSizes : \E g \in EngineInputs(p) : Entry(p, g) /\ log = <<>>

\* do { progress = false;
DoBody ==
  /\ pc = "do"
  /\ progress' = FALSE
  /\ pc' = "rows"
  /\ idx' = 1
  /\ passes' = passes + 1
  /\ fills' = 0
  /\ UNCHANGED <<psize, n, grid, complete, valid, tdArray, th, overallValid,
                 run, grid0, gridAtExit, log>>

\* for (row = 1; row <= psize; row++) { ... }
ScanRow ==
  /\ pc = "rows"
  /\ ScanStep(RowCells(idx), idx = psize, "cols", 1)

\* for (col = 1; col <= psize; col++) { ... }
ScanCol ==
  /\ pc = "cols"
  /\ ScanStep(ColCells(idx), idx = psize, "boxes", 0)

\* for (i < n) for (j < n) { ... }: idx = i * n + j
ScanBox ==
  /\ pc = "boxes"
  /\ ScanStep(BoxOf(idx), idx = n * n - 1, "while", 0)

\* } while (progress);
LoopTest ==
  /\ pc = "while"
  /\ IF LoopAgain(progress)
       THEN pc' = "do" /\ UNCHANGED gridAtExit
       ELSE IF run = 1 THEN pc' = "check" /\ gridAtExit' = grid
                       ELSE pc' = "stop" /\ UNCHANGED gridAtExit
  /\ UNCHANGED <<psize, n, grid, idx, progress, complete, valid, tdArray, th,
                 overallValid, run, passes, fills, grid0, log>>

\* the completion loop is run a second time on the grid the first run left
RunEngineAgain ==
  /\ pc = "check"
  /\ run = 1
  /\ run' = 2
  /\ pc' = "do"
  /\ passes' = 0
  /\ UNCHANGED <<psize, n, grid, idx, progress, complete, valid, tdArray, th,
                 overallValid, fills, grid0, gridAtExit, log>>

----------------------------------------------------------------------------
(* The main thread: the completeness check and the set-up of the threads.  *)

BoolStr(b) == IF b THEN "true" ELSE "false"

\* (mutant) the scan for a zero looks at row 1 only
IsCompleteRowOne(g) == \A c \in DOMAIN g : c[1] = 1 => g[c] # 0

\* (mutant) the scan for a zero looks at column 1 only
IsCompleteColOne(g) == \A c \in DOMAIN g : c[2] = 1 => g[c] # 0

\* isComplete: no grid[row][col] == 0
IsComplete(g) == \A c \in DOMAIN g : g[c] # 0

\* *complete = isComplete; if (!isComplete) { *valid = false; return; }
CheckComplete ==
  /\ pc = "check"
  /\ complete' = BoolStr(IsComplete(grid))
  /\ IF IsComplete(grid)
       THEN pc' = "setup" /\ UNCHANGED valid
       ELSE pc' = "done" /\ valid' = "false"
  /\ UNCHANGED <<psize, n, grid, idx, progress, tdArray, th, overallValid, run,
                 passes, fills, grid0, gridAtExit, log>>

\* what stands in a field nothing has been stored in since the malloc: no
\* code reads such a field (a row or column thread reads index, a box thread
\* startRow and startCol, the main thread valid once the thread has ended)
Uninit == -1

\* the three loops that fill tdArray[threadIndex++]; a field the loop does not
\* assign stays as malloc left it (Uninit), and so does valid
RowData(r) ==
  [type |-> 0, index |-> r, startRow |-> Uninit, startCol |-> Uninit,
   psize |-> psize, n |-> n, valid |-> Uninit]
ColData(c) ==
  [type |-> 1, index |-> c, startRow |-> Uninit, startCol |-> Uninit,
   psize |-> psize, n |-> n, valid |-> Uninit]
\* (mutant) startCol is computed from i
BoxDataSameIJ(i, j) ==
  [type |-> 2, index |-> Uninit, startRow |-> i * n + 1, startCol |-> i * n + 1,
   psize |-> psize, n |-> n, valid |-> Uninit]
BoxData(i, j) ==
  [type |-> 2, index |-> Uninit, startRow |-> i * n + 1, startCol |-> j * n + 1,
   psize |-> psize, n |-> n, valid |-> Uninit]

\* the slots the three loops write, by the value threadIndex has when each is
\* written; a slot none of them writes (n * n < psize) stays unwritten
ThreadData ==
  [t \in 0..(TotalThreads - 1) |->
     IF t < psize THEN RowData(t + 1)
     ELSE IF t < 2 * psize THEN ColData(t - psize + 1)
     ELSE IF t - 2 * psize < n * n
            THEN BoxData((t - 2 * psize) \div n, (t - 2 * psize) % n)
            ELSE "unwritten"]

SetupThreadData ==
  /\ pc = "setup"
  /\ tdArray' = ThreadData
  /\ pc' = "spawn"
  /\ idx' = 0
  /\ UNCHANGED <<psize, n, grid, progress, complete, valid, th, overallValid,
                 run, passes, fills, grid0, gridAtExit, log>>

----------------------------------------------------------------------------
(* validateRegion.                                                         *)

\* the cells the thread's loops visit, in order
RegionOf(td) ==
  IF td.type = 0 THEN [col \in 1..td.psize |-> <<td.index, col>>]
  ELSE IF td.type = 1 THEN [row \in 1..td.psize |-> <<row, td.index>>]
  ELSE [k \in 1..(td.n * td.n) |->
          <<td.startRow + ((k - 1) \div td.n), td.startCol + ((k - 1) % td.n)>>]

\* (mutant) the scan does not look for duplicates
ValidateRegionNoDup(g, td) ==
  LET cells == [k \in 1..td.psize |->
                  IF td.type = 0 THEN <<td.index, k>>
                  ELSE IF td.type = 1 THEN <<k, td.index>>
                  ELSE <<td.startRow + ((k - 1) \div td.n),
                         td.startCol + ((k - 1) % td.n)>>]
  IN  IF \E k \in DOMAIN cells : g[cells[k]] < 1 \/ g[cells[k]] > td.psize
        THEN 0 ELSE 1

\* the scan stops with valid = 0 at the first cell that is out of 1..psize or
\* whose value is already in found[]; a scan that reaches the end gives 1
ValidateRegion(g, td) ==
  LET cells == RegionOf(td)
      stops(k) == \/ g[cells[k]] < 1
                  \/ g[cells[k]] > td.psize
                  \/ \E j \in 1..(k - 1) : g[cells[j]] = g[cells[k]]
  IN  IF \E k \in DOMAIN cells : stops(k) THEN 0 ELSE 1

\* (mutant) found[] is one array shared by the threads: a thread that ends
\* after a later-created thread has ended sees that thread's marks
ThreadResultShared(i) ==
  IF \E j \in DOMAIN th : j > i /\ th[j] = "exited"
    THEN 0 ELSE ValidateRegion(grid, tdArray[i])

\* what thread i stores in its slot
ThreadResult(i) == ValidateRegion(grid, tdArray[i])

\* one thing a thread does: op is "data" (reads its ThreadData fields),
\* "calloc", "grid" (reads grid[row][col], finding num), "test" (reads
\* found[num]), "mark" (found[num] = 1), "valid" (data->valid = num), "free",
\* "exit"; blk names the block found points to
Ev(op, blk, row, col, num) == [op |-> op, blk |-> blk, row |-> row, col |-> col, num |-> num]

\* (mutant) found is one static array that all the threads use
TrackerShared(i) == 0

\* the block calloc returns to thread i: its own, found being a local
TrackerOf(i) == i

\* (mutant) the exit at a duplicate does not free found
ThreadTraceLeaks(i) ==
  LET td == tdArray[i]
      cells == RegionOf(td)
      last == <<Ev("free", i, 0, 0, 0), Ev("exit", i, 0, 0, 0)>>
      RECURSIVE Scan(_, _)
      Scan(k, found) ==
        IF k > Cardinality(DOMAIN cells)
          THEN <<Ev("valid", i, 0, 0, 1)>> \o last
          ELSE LET c == cells[k]
                   num == grid[c]
                   read == Ev("grid", i, c[1], c[2], num)
               IN  IF num < 1 \/ num > td.psize
                     THEN <<read, Ev("valid", i, 0, 0, 0)>> \o last
                   ELSE IF num \in found
                     THEN <<read, Ev("test", i, 0, 0, num), Ev("valid", i, 0, 0, 0),
                            Ev("exit", i, 0, 0, 0)>>
                   ELSE <<read, Ev("test", i, 0, 0, num), Ev("mark", i, 0, 0, num)>>
                          \o Scan(k + 1, found \cup {num})
  IN  <<Ev("data", i, 0, 0, 0), Ev("calloc", i, 0, 0, 0)>> \o Scan(1, {})

\* (mutant) the exit at a number out of 1..psize does not set data->valid
ThreadTraceNoVerdict(i) ==
  LET td == tdArray[i]
      cells == RegionOf(td)
      last == <<Ev("free", i, 0, 0, 0), Ev("exit", i, 0, 0, 0)>>
      RECURSIVE Scan(_, _)
      Scan(k, found) ==
        IF k > Cardinality(DOMAIN cells)
          THEN <<Ev("valid", i, 0, 0, 1)>> \o last
          ELSE LET c == cells[k]
                   num == grid[c]
                   read == Ev("grid", i, c[1], c[2], num)
               IN  IF num < 1 \/ num > td.psize
                     THEN <<read>> \o last
                   ELSE IF num \in found
                     THEN <<read, Ev("test", i, 0, 0, num), Ev("valid", i, 0, 0, 0)>> \o last
                   ELSE <<read, Ev("test", i, 0, 0, num), Ev("mark", i, 0, 0, num)>>
                          \o Scan(k + 1, found \cup {num})
  IN  <<Ev("data", i, 0, 0, 0), Ev("calloc", i, 0, 0, 0)>> \o Scan(1, {})

\* what validateRegion does, in order, run by thread i on tdArray[i]
ThreadTrace(i) ==
  LET td == tdArray[i]
      cells == RegionOf(td)
      b == TrackerOf(i)
      last == <<Ev("free", b, 0, 0, 0), Ev("exit", b, 0, 0, 0)>>
      RECURSIVE Scan(_, _)
      Scan(k, found) ==
        IF k > Cardinality(DOMAIN cells)
          THEN <<Ev("valid", b, 0, 0, 1)>> \o last
          ELSE LET c == cells[k]
                   num == grid[c]
                   read == Ev("grid", b, c[1], c[2], num)
               IN  IF num < 1 \/ num > td.psize
                     THEN <<read, Ev("valid", b, 0, 0, 0)>> \o last
                   ELSE IF num \in found
                     THEN <<read, Ev("test", b, 0, 0, num), Ev("valid", b, 0, 0, 0)>> \o last
                   ELSE <<read, Ev("test", b, 0, 0, num), Ev("mark", b, 0, 0, num)>>
                          \o Scan(k + 1, found \cup {num})
  IN  <<Ev("data", b, 0, 0, 0), Ev("calloc", b, 0, 0, 0)>> \o Scan(1, {})

\* (mutant) a thread that finds its region invalid clears the region's first
\* cell in the grid
ThreadRunClears(i) ==
  /\ th[i] = "running"
  /\ tdArray' = [tdArray EXCEPT ![i].valid = ValidateRegion(grid, tdArray[i])]
  /\ th' = [th EXCEPT ![i] = "exited"]
  /\ grid' = IF ValidateRegion(grid, tdArray[i]) = 0
               THEN [grid EXCEPT ![RegionOf(tdArray[i])[1]] = 0]
               ELSE grid
  /\ UNCHANGED <<psize, n, pc, idx, progress, complete, valid,
                 overallValid, run, passes, fills, grid0, gridAtExit, log>>

\* (mutant) a thread waits for the thread created after it (the last for the
\* first) to have ended before it stores its result
ThreadRunAfterNext(i) ==
  /\ th[i] = "running"
  /\ th[(i + 1) % (3 * psize)] = "exited"
  /\ tdArray' = [tdArray EXCEPT ![i].valid = ValidateRegion(grid, tdArray[i])]
  /\ th' = [th EXCEPT ![i] = "exited"]
  /\ log' = IF i \in DOMAIN log THEN [log EXCEPT ![i] = ThreadTrace(i)] ELSE log
  /\ UNCHANGED <<psize, n, grid, pc, idx, progress, complete, valid,
                 overallValid, run, passes, fills, grid0, gridAtExit>>

\* thread i runs validateRegion on tdArray[i] and exits
ThreadRun(i) ==
  /\ th[i] = "running"
  /\ th' = [th EXCEPT ![i] = "exited"]
  /\ tdArray' = [tdArray EXCEPT ![i].valid = ThreadResult(i)]
  /\ log' = IF i \in DOMAIN log THEN [log EXCEPT ![i] = ThreadTrace(i)] ELSE log
  /\ UNCHANGED <<psize, n, grid, pc, idx, progress, complete, valid,
                 overallValid, run, passes, fills, grid0, gridAtExit>>

----------------------------------------------------------------------------
(* The main thread: spawn and join.                                        *)

\* rc == 0: thread idx starts; after the last one, overallValid = true and the
\* join loop begins
SpawnThread ==
  /\ pc = "spawn"
  /\ th' = [th EXCEPT ![idx] = "running"]
  /\ IF idx = TotalThreads - 1
       THEN pc' = "join" /\ idx' = 0 /\ overallValid' = TRUE
       ELSE pc' = pc /\ idx' = idx + 1 /\ UNCHANGED overallValid
  /\ UNCHANGED <<psize, n, grid, progress, complete, valid, tdArray, run,
                 passes, fills, grid0, gridAtExit, log>>

\* (mutant) rc != 0: *valid = false and checkPuzzle returns
CreateFailsReturns ==
  /\ pc = "spawn"
  /\ pc' = "done"
  /\ valid' = "false"
  /\ UNCHANGED <<psize, n, grid, idx, progress, complete, tdArray, th,
                 overallValid, run, passes, fills, grid0, gridAtExit, log>>

\* rc != 0: exit(EXIT_FAILURE) ends the process, its threads and its memory
CreateFails ==
  /\ pc = "spawn"
  /\ pc' = "exit_failure"
  /\ th' = [i \in DOMAIN th |-> IF th[i] = "none" THEN "none" ELSE "killed"]
  /\ tdArray' = [i \in {} |-> 0]
  /\ log' = [i \in DOMAIN log |-> <<>>]
  /\ UNCHANGED <<psize, n, grid, idx, progress, complete, valid, overallValid,
                 run, passes, fills, grid0, gridAtExit>>

\* if (tdArray[i].valid == 0) overallValid = false;
Collect(ov, v) == IF v = 0 THEN FALSE ELSE ov

\* (mutant) the join loop breaks at the first invalid region
JoinEndsOnInvalid(i, ov) == i = 3 * psize - 1 \/ ~ov

\* the join loop ends when i reaches totalThreads, whatever overallValid is
JoinEnds(i, ov) == i = TotalThreads - 1

\* pthread_join(threads[idx]) returns once thread idx has exited; after the
\* last join, *valid = overallValid
JoinThread ==
  /\ pc = "join"
  /\ th[idx] = "exited"
  /\ LET ov == Collect(overallValid, tdArray[idx].valid)
     IN  /\ overallValid' = ov
         /\ IF JoinEnds(idx, ov)
              THEN pc' = "done" /\ valid' = BoolStr(ov)
              ELSE pc' = pc /\ UNCHANGED valid
  /\ idx' = idx + 1
  /\ UNCHANGED <<psize, n, grid, progress, complete, tdArray, th, run, passes,
                 fills, grid0, gridAtExit, log>>

----------------------------------------------------------------------------

Next ==
  \/ DoBody
  \/ ScanRow
  \/ ScanCol
  \/ ScanBox
  \/ LoopTest
  \/ CheckComplete
  \/ SetupThreadData
  \/ SpawnThread
  \/ CreateFails
  \/ \E i \in DOMAIN th : ThreadRun(i)
  \/ JoinThread

Spec == Init /\ [][Next]_vars

\* the completion loop alone, run once and then once more on its own result
NextEngine ==
  \/ DoBody
  \/ ScanRow
  \/ ScanCol
  \/ ScanBox
  \/ LoopTest
  \/ RunEngineAgain

SpecEngine == InitEngine /\ [][NextEngine]_vars

\* the whole of checkPuzzle, the threads' logs kept
SpecThreads == InitThreads /\ [][Next]_vars

\* the scheduler is fair to the main thread and to every created thread;
\* nothing obliges pthread_create to fail
MainStep ==
  \/ DoBody
  \/ ScanRow
  \/ ScanCol
  \/ ScanBox
  \/ LoopTest
  \/ CheckComplete
  \/ SetupThreadData
  \/ SpawnThread
  \/ JoinThread

\* every index a thread can have, for the sizes explored
ThreadIds == UNION {0..(3 * p - 1) : p \in Sizes}

\* every step of the main thread changes pc or idx, every step of a thread th
sched == <<pc, idx, th>>

Fairness ==
  /\ WF_sched(MainStep)
  /\ \A i \in ThreadIds : WF_sched(i \in DOMAIN th /\ ThreadRun(i))

\* checkPuzzle entered with a grid it finds complete and valid (1x1),
\* complete and invalid (4x4), or incomplete (both)
InitFair ==
  \E p \in Sizes :
    \E g \in IF p = 4 THEN {RowDup4, Sparse4}
                       ELSE {FromRows(1, << <<k>> >>) : k \in 0..1} :
      Entry(p, g) /\ log = <<>>

SpecFair == InitFair /\ [][Next]_vars /\ Fairness

----------------------------------------------------------------------------
(* What the properties below speak of: the regions of a grid as sets of    *)
(* cells, stated from the rules of the puzzle and not from the loops.      *)

AllSizes == Sizes \cup EngineSizes
Root(p) == CHOOSE m \in 1..p : m * m = p

RowSet(p, r) == {<<r, k>> : k \in 1..p}
ColSet(p, k) == {<<r, k>> : r \in 1..p}
\* the box with top-left corner (a, b)
BoxSet(p, a, b) ==
  {<<a + x, b + y>> : <<x, y>> \in (0..(Root(p) - 1)) \X (0..(Root(p) - 1))}
Corners(p) == {i * Root(p) + 1 : i \in 0..(Root(p) - 1)}

\* the regions of a puzzle of size p, as <<kind, a, b>>, each with its cells
RowRegions(p) == [d \in {<<"row", r, 0>> : r \in 1..p} |-> RowSet(p, d[2])]
ColRegions(p) == [d \in {<<"col", k, 0>> : k \in 1..p} |-> ColSet(p, d[2])]
BoxRegions(p) ==
  [d \in {<<"box", a, b>> : <<a, b>> \in Corners(p) \X Corners(p)} |->
     BoxSet(p, d[2], d[3])]
Regions == [p \in AllSizes |-> RowRegions(p) @@ ColRegions(p) @@ BoxRegions(p)]

KindSets(p, kind) == {Regions[p][d] : d \in {e \in DOMAIN Regions[p] : e[1] = kind}}
RowSets(p) == KindSets(p, "row")
ColSets(p) == KindSets(p, "col")
BoxSets(p) == KindSets(p, "box")

\* region R (of N cells) of g holds each value of 1..N exactly once
IsPermutation(g, R) == \A v \in 1..Cardinality(R) : Cardinality({c \in R : g[c] = v}) = 1

AllPermutationsOf(p, g) == \A d \in DOMAIN Regions[p] : IsPermutation(g, Regions[p][d])
AllPermutations(g) == AllPermutationsOf(psize, g)

InRange(g) == \A c \in DOMAIN g : g[c] \in 0..psize

\* the bases that are valid solved grids
ValidSolved == [p \in AllSizes |-> {S \in EngineSolved(p) : AllPermutationsOf(p, S)}]

\* checkPuzzle has returned to its caller
Returned == pc = "done"

----------------------------------------------------------------------------
(* C1: once checkPuzzle has returned with the grid complete (no zero cell  *)
(* when the completion loop ended), valid is true exactly when every row,  *)
(* every column and every box of the grid holds each of 1..N exactly once. *)
C1_ValidIffAllPermutations ==
  (Returned /\ Zeros(gridAtExit) = 0) =>
     (valid = "true" <=> AllPermutations(grid))

\* a complete grid all of whose columns and boxes are permutations and one of
\* whose rows is not has been reported invalid
C1_Witness ==
  /\ Returned
  /\ Zeros(grid0) = 0
  /\ \A R \in ColSets(psize) \cup BoxSets(psize) : IsPermutation(grid, R)
  /\ \E R \in RowSets(psize) : ~IsPermutation(grid, R)
  /\ valid = "false"

(* C2: complete is true exactly when the grid had no zero cell when the    *)
(* completion loop ended; when complete is false, valid is false (not      *)
(* unset) and no thread has been created.                                  *)
C2_CompleteIffNoZero ==
  (complete # "unset") =>
     /\ complete = BoolStr(Zeros(gridAtExit) = 0)
     /\ (complete = "false") =>
          /\ valid = "false"
          /\ \A i \in DOMAIN th : th[i] = "none"
          /\ DOMAIN tdArray = {}

\* an incomplete grid has been reported
C2_Witness ==
  /\ Returned
  /\ complete = "false"
  /\ Zeros(grid) > 0

(* C3 as stated: a grid given to checkPuzzle with a zero cell is reported  *)
(* complete = false and valid = false.                                     *)
C3_Original ==
  (Returned /\ Zeros(grid0) > 0) => (complete = "false" /\ valid = "false")

(* C3, amended: a grid that still has a zero cell when the completion loop *)
(* has ended is reported complete = false and valid = false, whatever its  *)
(* regions hold.                                                           *)
C3_ZeroLeftIsIncompleteInvalid ==
  (Returned /\ Zeros(gridAtExit) > 0) => (complete = "false" /\ valid = "false")

\* a grid whose filled regions are all sound, and one with a duplicate in a
\* full row, both with zeros the loop could not fill, have been reported
C3_Witness ==
  /\ Returned
  /\ Zeros(gridAtExit) > 0
  /\ \E R \in RowSets(psize) :
       /\ \A c \in R : grid[c] # 0
       /\ ~IsPermutation(grid, R)
  /\ complete = "false"
  /\ valid = "false"

(* C4: (input cells in 0..N) a second run of the completion loop, on the   *)
(* grid the first run produced, changes no cell.                           *)
C4_SecondRunChangesNothing ==
  (run = 2 /\ InRange(grid0)) => grid = gridAtExit

\* a second run has ended on a grid the first run had written cells of and
\* left zeros in
C4_Witness ==
  /\ run = 2
  /\ pc = "stop"
  /\ InRange(grid0)
  /\ gridAtExit # grid0
  /\ Zeros(gridAtExit) > 0

\* the grid the current run of the loop started from
RunStart == IF run = 1 THEN grid0 ELSE gridAtExit
InLoop == pc \in {"rows", "cols", "boxes", "while"}
LoopLeft == pc \in {"check", "stop"}

(* C5: (input cells in 0..N) the loop ends: the passes started never exceed *)
(* the number of cells empty at the start plus one; progress is true       *)
(* exactly when the pass has written a cell; every write of a pass removes *)
(* one zero cell and adds none; and the loop is left exactly at the end of *)
(* a pass that wrote no cell.                                              *)
C5_LoopTerminates ==
  /\ [](InRange(grid0) =>
          /\ passes <= Zeros(RunStart) + 1
          /\ InLoop => (progress <=> fills > 0))
  /\ [][InRange(grid0) =>
          /\ (fills' > fills \/ (progress' /\ ~progress) \/ grid' # grid) =>
               (fills' = fills + 1 /\ progress' /\ Zeros(grid') = Zeros(grid) - 1)
          /\ (pc = "while") => ((fills = 0) <=> LoopLeft')
          /\ LoopLeft' => (pc = "while" \/ LoopLeft)]_vars

\* a loop that needed three passes has ended, the last pass writing nothing
C5_Witness ==
  /\ run = 1
  /\ pc = "check"
  /\ InRange(grid0)
  /\ passes = 3
  /\ fills = 0

Agrees(g, S) == \A c \in DOMAIN g : g[c] # 0 => g[c] = S[c]

(* C6: when the input agrees on its nonzero cells with a valid solved grid *)
(* S, every nonzero cell of the grid equals S there at every moment (so    *)
(* every value written is S's); and with exactly one cell of S blanked,    *)
(* checkPuzzle returns the grid S with complete = true and valid = true.   *)
C6_FillsAgreeWithSolution ==
  \A S \in ValidSolved[psize] :
    Agrees(grid0, S) =>
       /\ Agrees(grid, S)
       /\ (Returned /\ Zeros(grid0) = 1) =>
            (grid = S /\ complete = "true" /\ valid = "true")

\* a 4x4 solved grid given with one cell blanked has been restored and
\* reported complete and valid
C6_Witness ==
  /\ Returned
  /\ psize = 4
  /\ Zeros(grid0) = 1
  /\ grid \in ValidSolved[psize]
  /\ complete = "true"
  /\ valid = "true"

(* C7 as stated: a grid with no zero cell and a cell outside 1..N is       *)
(* processed without error and reported complete = true, valid = false.    *)
C7_OutOfRangeIsReported ==
  (Zeros(grid0) = 0 /\ ~InRange(grid0)) =>
     /\ pc # "ub"
     /\ Returned => (complete = "true" /\ valid = "false")

\* the region a task checks, as <<kind, a, b>>
Desc(td) ==
  IF td.type = 0 THEN <<"row", td.index, 0>>
  ELSE IF td.type = 1 THEN <<"col", td.index, 0>>
  ELSE <<"box", td.startRow, td.startCol>>

Created == {i \in DOMAIN th : th[i] # "none"}
Validating == pc \in {"spawn", "join"} \/ (Returned /\ complete = "true")

(* C8: the tasks created check pairwise different regions, each one of the *)
(* puzzle's rows, columns and boxes and exactly its cells; once the spawn  *)
(* loop has ended there are exactly 3N tasks and every row, column and box *)
(* (top-left corner (i n + 1, j n + 1)) has its task.                      *)
C8_OneTaskPerRegion ==
  Validating =>
    LET descs == {Desc(tdArray[i]) : i \in Created}
    IN  /\ descs \subseteq DOMAIN Regions[psize]
        /\ Cardinality(descs) = Cardinality(Created)
        /\ \A i \in Created :
             {RegionOf(tdArray[i])[k] : k \in DOMAIN RegionOf(tdArray[i])}
               = Regions[psize][Desc(tdArray[i])]
        /\ (pc # "spawn") =>
             /\ Cardinality(Created) = 3 * psize
             /\ descs = DOMAIN Regions[psize]
             /\ \A a \in Corners(psize), b \in Corners(psize) : <<"box", a, b>> \in descs

\* all twelve tasks of a 4x4 puzzle have been created
C8_Witness ==
  /\ pc = "join"
  /\ psize = 4
  /\ Cardinality(Created) = 12

(* C9: valid is assigned only when all 3N tasks have exited and all 3N     *)
(* have been joined, whatever the earlier ones reported, and it is the AND *)
(* of the 3N results; a task is joined only once it has exited.            *)
C9_VerdictAfterAllJoined ==
  /\ (pc \in {"setup", "spawn", "join"}) => valid = "unset"
  /\ (pc = "join") => \A i \in 0..(idx - 1) : th[i] = "exited"
  /\ (Returned /\ complete = "true") =>
       /\ idx = 3 * psize
       /\ \A i \in 0..(3 * psize - 1) : th[i] = "exited"
       /\ valid = BoolStr(\A i \in 0..(3 * psize - 1) : tdArray[i].valid = 1)

\* the first task of a 4x4 puzzle reported invalid, and the verdict came after
\* all twelve were joined
C9_Witness ==
  /\ Returned
  /\ psize = 4
  /\ complete = "true"
  /\ tdArray[0].valid = 0
  /\ idx = 12
  /\ valid = "false"

\* the verdict of the tasks run one after the other, in slot order, on g
SequentialVerdict(g) ==
  LET td == ThreadData
  IN  BoolStr(\A i \in 0..(3 * psize - 1) : ValidateRegion(g, td[i]) = 1)

(* C10: in whatever order the tasks run and end, each stores the result    *)
(* its region has on the grid, and valid is the verdict the tasks give     *)
(* when run one after the other; it is the same whichever slot checks      *)
(* which region (all regions valid, out-of-range cells counting invalid).  *)
C10_VerdictIndependentOfOrder ==
  Validating =>
    /\ LET td == ThreadData
       IN  \A i \in Created :
             th[i] = "exited" => tdArray[i].valid = ValidateRegion(gridAtExit, td[i])
    /\ Returned =>
         /\ valid = SequentialVerdict(gridAtExit)
         /\ valid = BoolStr(\A d \in DOMAIN Regions[psize] :
                              \A v \in 1..psize :
                                \E c \in Regions[psize][d] : gridAtExit[c] = v)

\* the last task of a 4x4 puzzle has ended with "invalid" before the first
\* has, while the main thread waits for the first
C10_Witness ==
  /\ pc = "join"
  /\ psize = 4
  /\ idx = 0
  /\ th[0] = "running"
  /\ th[11] = "exited"
  /\ tdArray[11].valid = 0

----------------------------------------------------------------------------
\* a step of the main thread in the spawn loop that starts no thread: the
\* pthread_create of thread idx has failed
CreateFailed == pc = "spawn" /\ (pc' # pc \/ idx' # idx) /\ th'[idx] # "running"

\* C11: when the creation of one of the threads fails, checkPuzzle stops in a
\* fatal exit without having assigned valid, whatever the threads created
\* before have done, and nothing happens after that exit: it never returns
C11_CreateFailureIsFatal ==
  /\ [][/\ CreateFailed => (pc' = "exit_failure" /\ valid' = "unset")
        /\ pc # "exit_failure"]_vars
  /\ [](pc = "exit_failure" => valid = "unset")

\* the creation of the last thread of a 4x4 grid has failed, and the eleven
\* threads before it, finished or not, have ended with the process
C11_Witness ==
  /\ pc = "exit_failure"
  /\ valid = "unset"
  /\ psize = 4
  /\ idx = 3 * psize - 1
  /\ \A i \in 0..(idx - 1) : th[i] = "killed"

\* the main thread is past the completion loop and its completeness check:
\* threads are being set up, created or joined, or checkPuzzle has ended
PastLoop == pc \in {"setup", "spawn", "join", "done", "exit_failure"}

\* C12: from the set-up of the threads on, no step writes a cell of the grid:
\* the grid every thread reads, and the grid checkPuzzle leaves, is the grid
\* the completion loop ended with
C12_GridFrozenWhileValidating ==
  /\ [][PastLoop => grid' = grid]_vars
  /\ [](PastLoop => grid = gridAtExit)

\* checkPuzzle has returned from validating a 4x4 grid the loop had filled
\* cells of, one of its regions invalid
C12_Witness ==
  /\ Returned
  /\ psize = 4
  /\ complete = "true"
  /\ valid = "false"
  /\ grid # grid0
  /\ grid = gridAtExit
  /\ \A i \in DOMAIN th : th[i] = "exited"

\* thread i has been created and has not ended
Running(i) == i \in DOMAIN th /\ th[i] = "running"

\* thread i has ended: it has exited, or the process has
Ended(i) == i \in DOMAIN th /\ th[i] \in {"exited", "killed"}

\* C13: under a fair scheduler a created thread can always take its step,
\* whatever the other threads have done, and from some point on no thread is
\* left running; and once the grid is found complete, checkPuzzle eventually
\* returns with complete and valid assigned, unless a pthread_create fails
\* and the process exits
C13_ThreadsEndAndCheckPuzzleReturns ==
  /\ [](\A i \in ThreadIds : Running(i) => ENABLED ThreadRun(i))
  /\ <>[](\A i \in ThreadIds : ~Running(i))
  /\ (complete = "true") ~>
       ((Returned /\ complete = "true" /\ valid \in {"true", "false"})
          \/ pc = "exit_failure")

\* the main thread waits in pthread_join for thread 0 of a 4x4 grid while
\* later threads have ended
C13_Witness ==
  /\ pc = "join"
  /\ psize = 4
  /\ idx = 0
  /\ th[0] = "running"
  /\ \A i \in 1..(3 * psize - 1) : th[i] = "exited"

----------------------------------------------------------------------------
ZeroCells(g, R) == {c \in R : g[c] = 0}
Values(g, R) == {g[c] : c \in R} \ {0}
Absent(g, R) == (1..psize) \ Values(g, R)
Least(S) == CHOOSE x \in S : \A y \in S : x <= y

\* C14: when the completion loop has ended, no row, column or box of the
\* grid has exactly one cell equal to 0
C14_NoSingleGapAtLoopEnd ==
  LoopLeft =>
    \A d \in DOMAIN Regions[psize] :
      Cardinality(ZeroCells(grid, Regions[psize][d])) # 1

\* the loop has ended after filling cells, with cells still empty
C14_Witness ==
  /\ LoopLeft
  /\ run = 1
  /\ psize = 4
  /\ Zeros(grid) >= 2
  /\ Zeros(grid) < Zeros(grid0)

\* the main thread is about to scan a region, and which one
Scanning == pc \in {"rows", "cols", "boxes"}
ScanDesc ==
  IF pc = "rows" THEN <<"row", idx, 0>>
  ELSE IF pc = "cols" THEN <<"col", idx, 0>>
  ELSE <<"box", (idx \div Root(psize)) * Root(psize) + 1,
                (idx % Root(psize)) * Root(psize) + 1>>
ScanSet == Regions[psize][ScanDesc]

\* C15: the scan of a region whose cells are in 0..N and that has exactly one
\* zero cell writes that cell, and only it, with the smallest number of 1..N
\* that is not among the region's nonzero entries: the one absent number
\* when the other N-1 entries are distinct
C15_SingleGapGetsLeastAbsent ==
  [][(/\ Scanning
      /\ \A c \in ScanSet : grid[c] \in 0..psize
      /\ Cardinality(ZeroCells(grid, ScanSet)) = 1)
       => LET c == CHOOSE z \in ScanSet : grid[z] = 0
              A == Absent(grid, ScanSet)
          IN  /\ grid'[c] \in 1..psize
              /\ grid'[c] \in A
              /\ grid'[c] = Least(A)
              /\ Cardinality(Values(grid, ScanSet)) = psize - 1 => A = {grid'[c]}
              /\ \A d \in DOMAIN grid \ {c} : grid'[d] = grid[d]
              /\ progress']_vars

\* row 1 of a 4x4 grid, given with one zero and a duplicate among its three
\* other entries, has just been scanned and is full
C15_Witness ==
  /\ pc = "rows"
  /\ idx = 2
  /\ run = 1
  /\ passes = 1
  /\ psize = 4
  /\ Cardinality(ZeroCells(grid0, RowSet(4, 1))) = 1
  /\ Cardinality(Values(grid0, RowSet(4, 1))) = 2
  /\ ZeroCells(grid, RowSet(4, 1)) = {}

\* C16 as stated: no cell of a region with 0 or with 2 or more missing cells
\* is written during the pass; here for the rows in the first pass, whose
\* cells when they are scanned are those given
C16_Original ==
  (run = 1 /\ passes = 1 /\ InLoop) =>
    \A r \in 1..psize :
      Cardinality(ZeroCells(grid0, RowSet(psize, r))) # 1
        => \A c \in RowSet(psize, r) : grid[c] = grid0[c]

\* C16: the scan of a region that has no zero cell, or two or more, writes no
\* cell and leaves progress as it is
C16_ScanOfOtherRegionsWritesNothing ==
  [][(Scanning /\ Cardinality(ZeroCells(grid, ScanSet)) # 1)
       => (grid' = grid /\ progress' = progress)]_vars

\* in the first pass a row given with two or more zero cells, which its own
\* scan has left as it was, has had a cell written by a later scan
C16_Witness ==
  /\ run = 1
  /\ passes = 1
  /\ pc \in {"cols", "boxes", "while"}
  /\ \E r \in 1..psize :
       /\ Cardinality(ZeroCells(grid0, RowSet(psize, r))) >= 2
       /\ \E c \in RowSet(psize, r) : grid[c] # grid0[c]

----------------------------------------------------------------------------
\* C20: a step of the completion loop that changes a cell changes it from 0
\* to a number of 1..N, so no step adds a zero cell; and every cell given
\* nonzero has the value it was given, in every state of the loop and after
C20_OnlyZeroCellsAreWritten ==
  /\ [][/\ \A c \in DOMAIN grid :
             grid'[c] # grid[c] => (grid[c] = 0 /\ grid'[c] \in 1..psize)
        /\ Zeros(grid') <= Zeros(grid)]_vars
  /\ [](\A c \in DOMAIN grid : grid0[c] # 0 => grid[c] = grid0[c])

\* the loop has ended on a 9x9 grid given with four zero cells, all filled
C20_Witness ==
  /\ LoopLeft
  /\ psize = 9
  /\ Zeros(grid0) = 4
  /\ Zeros(grid) = 0
  /\ \A c \in DOMAIN grid : grid0[c] # 0 => grid[c] = grid0[c]

----------------------------------------------------------------------------
(* The threads' logs.                                                      *)

\* the threads that have ended and left a log
Logged == {i \in DOMAIN log : log[i] # <<>>}
\* where in the log L of a thread op was done
AtIn(L, op) == {k \in DOMAIN L : L[k].op = op}
At(i, op) == AtIn(log[i], op)
\* the locations the thread i of log L wrote and read: its slot's valid, a
\* tracker block, a cell of the grid, the other fields of its slot
WrittenIn(L, i) ==
  {<<"valid", i, 0>> : k \in AtIn(L, "valid")}
    \cup {<<"found", L[k].blk, 0>> :
            k \in AtIn(L, "calloc") \cup AtIn(L, "mark") \cup AtIn(L, "free")}
ReadIn(L, i) ==
  {<<"data", i, 0>> : k \in AtIn(L, "data")}
    \cup {<<"grid", L[k].row, L[k].col>> : k \in AtIn(L, "grid")}
    \cup {<<"found", L[k].blk, 0>> : k \in AtIn(L, "test")}
Written(i) == WrittenIn(log[i], i)
Read(i) == ReadIn(log[i], i)
\* the block thread i's calloc made
Own(i) == {log[i][k].blk : k \in At(i, "calloc")}

\* C17: a step of a thread leaves the grid, the other slots, the fields of
\* its own slot other than valid and the other threads' logs as they are;
\* no location it has written was written or read by a thread that ended
\* before it, and no location it has read was written by one; and what an
\* ended thread wrote is the valid of its own slot and the block its own
\* calloc made
C17_ThreadsShareNoMutableState ==
  /\ [][\A i \in ThreadIds :
          (Running(i) /\ th'[i] = "exited") =>
            /\ grid' = grid
            /\ tdArray' = [tdArray EXCEPT ![i].valid = tdArray'[i].valid]
            /\ log' = [log EXCEPT ![i] = log'[i]]
            /\ LET W == WrittenIn(log'[i], i)
                   R == ReadIn(log'[i], i)
               IN  \A j \in Logged \ {i} :
                     /\ W \cap (Written(j) \cup Read(j)) = {}
                     /\ R \cap Written(j) = {}]_vars
  /\ [](\A i \in Logged :
          Written(i) = {<<"valid", i, 0>>} \cup {<<"found", b, 0>> : b \in Own(i)})

\* two threads checking regions that cross, a row and a column of a 4x4
\* grid, have ended, both having marked numbers, while a third is running
C17_Witness ==
  /\ psize = 4
  /\ \E i \in 0..3, j \in 4..7 :
       /\ {i, j} \subseteq Logged
       /\ At(i, "mark") # {}
       /\ At(j, "mark") # {}
       /\ Read(i) \cap Read(j) # {}
  /\ \E k \in DOMAIN th : th[k] = "running"

\* how thread i ended: at a number out of range, at a duplicate, or after the
\* full scan
PathOf(i) ==
  LET v == CHOOSE k \in At(i, "valid") : TRUE
  IN  IF log[i][v].num = 1 THEN "full"
      ELSE IF log[i][v - 1].op = "grid" THEN "range" ELSE "dup"

\* C18: an ended thread has called calloc once, before any use of found, and
\* free once, after every use of found and before its exit, on each of its
\* three ways out; an ended thread has left a log; so when checkPuzzle
\* returns after validating, every tracker allocated has been freed
C18_TrackerAcquiredAndReleasedOnce ==
  /\ \A i \in DOMAIN log : th[i] = "exited" => i \in Logged
  /\ \A i \in Logged :
       /\ Cardinality(At(i, "calloc")) = 1
       /\ Cardinality(At(i, "free")) = 1
       /\ Cardinality(At(i, "exit")) = 1
       /\ \A a \in At(i, "calloc"), f \in At(i, "free"), x \in At(i, "exit") :
            /\ a < f
            /\ f < x
            /\ x = Len(log[i])
            /\ \A k \in At(i, "grid") : a < k
            /\ \A k \in At(i, "test") \cup At(i, "mark") :
                 a < k /\ k < f /\ log[i][k].blk = log[i][a].blk
            /\ log[i][f].blk = log[i][a].blk
  /\ (Returned /\ complete = "true") =>
       \A i \in DOMAIN log : i \in Logged /\ At(i, "free") # {}

\* checkPuzzle has returned and its threads have ended in the three ways
C18_Witness ==
  /\ Returned
  /\ complete = "true"
  /\ \A i \in DOMAIN log : i \in Logged /\ At(i, "valid") # {}
  /\ {PathOf(i) : i \in Logged} = {"range", "dup", "full"}

\* C19: an ended thread has stored valid, 0 or 1, exactly once and before its
\* exit, on each of its ways out, and its slot holds what it stored; and the
\* main thread goes past pthread_join(threads[idx]) to read slot idx only
\* when thread idx has ended, its slot written
C19_SlotWrittenBeforeExitReadAfterJoin ==
  /\ [](\A i \in DOMAIN log : th[i] = "exited" => i \in Logged)
  /\ [](\A i \in Logged :
          /\ Cardinality(At(i, "valid")) = 1
          /\ \A v \in At(i, "valid"), x \in At(i, "exit") :
               /\ v < x
               /\ log[i][v].num \in {0, 1}
               /\ tdArray[i].valid = log[i][v].num)
  /\ [][(pc = "join" /\ idx' # idx)
          => (th[idx] = "exited" /\ idx \in Logged /\ At(idx, "valid") # {})]_vars

\* the main thread has read 0 in slot 0 of a 4x4 grid and waits in
\* pthread_join for thread 1, later threads having ended in the three ways
C19_Witness ==
  /\ pc = "join"
  /\ psize = 4
  /\ idx = 1
  /\ ~overallValid
  /\ th[1] = "running"
  /\ {PathOf(i) : i \in Logged} = {"range", "dup", "full"}

====
